---- MODULE Spec2Model ----
(***************************************************************************)
(* A model of the CHIP-8 machine of src/src/emulator.rs: the Emulator      *)
(* struct, its constructor, tick_clock and step with the sixteen operation *)
(* handlers, stepped by a driver that also writes the public keypad field. *)
(*                                                                         *)
(* The handlers are pure operators over a machine record m (the fields of  *)
(* the Emulator struct); each returns [m |-> the machine after the call,   *)
(* res |-> the Result the call returned].  A Rust panic (an array indexed  *)
(* out of bounds) is the result status "Panic"; it carries the fields as   *)
(* they were when the panic was raised, and nothing runs after it.         *)
(***************************************************************************)
EXTENDS Integers, Sequences, FiniteSets, TLC

(***************************************************************************)
(* Program constants.                                                      *)
(***************************************************************************)
MEMORY_LEN == 4096
STACK_LEN == 128
DISPLAY_WIDTH == 64
DISPLAY_HEIGHT == 32
REGISTERS_LEN == 16
KEYPAD_LEN == 16
CODE_BASE_ADDRESS == 512
FONT_BASE_ADDRESS == 80

FONT ==
    << \hF0, \h90, \h90, \h90, \hF0,
       \h20, \h60, \h20, \h20, \h70,
       \hF0, \h10, \hF0, \h80, \hF0,
       \hF0, \h10, \hF0, \h10, \hF0,
       \h90, \h90, \hF0, \h10, \h10,
       \hF0, \h80, \hF0, \h10, \hF0,
       \hF0, \h80, \hF0, \h90, \hF0,
       \hF0, \h10, \h20, \h40, \h40,
       \hF0, \h90, \hF0, \h90, \hF0,
       \hF0, \h90, \hF0, \h10, \hF0,
       \hF0, \h90, \hF0, \h90, \h90,
       \hE0, \h90, \hE0, \h90, \hE0,
       \hF0, \h80, \h80, \h80, \hF0,
       \hE0, \h90, \h90, \h90, \hE0,
       \hF0, \h80, \hF0, \h80, \hF0,
       \hF0, \h80, \hF0, \h80, \h80 >>

(***************************************************************************)
(* Bounds of the model.                                                    *)
(***************************************************************************)
\* The driver presses and releases the keys 0 .. NumKeys-1.
NumKeys == 2
\* Construction is tried with images of 0 .. MaxSmall bytes and of
\* 3584-MaxDelta .. 3584+MaxDelta bytes, each filled in MaxSeed+1 ways.
MaxSmall == 2
MaxDelta == 2
MaxSeed == 1
\* The bytes random::<u8>() returns in the model.
RandomBytes == {0, 1, 16, 255}
\* The depths of nesting of the call chains: 1 .. MaxShallow, and the two
\* around the capacity of the stack.
MaxShallow == 2
ChainDepths == (1 .. MaxShallow) \cup {STACK_LEN - 1, STACK_LEN}
\* The value the timer programs load into a timer.
MaxTimer == 3
\* The messages a channel of Interface::run holds at most: the key events the
\* user has queued, and the redraw requests and clock ticks counted (more of
\* them pending are counted as MaxPending).
MaxPending == 1

(***************************************************************************)
(* u8 and u16 arithmetic.                                                  *)
(***************************************************************************)
RECURSIVE BitAnd(_, _)
BitAnd(a, b) ==
    IF a = 0 \/ b = 0 THEN 0
    ELSE (a % 2) * (b % 2) + 2 * BitAnd(a \div 2, b \div 2)

RECURSIVE BitOr(_, _)
BitOr(a, b) ==
    IF a = 0 THEN b
    ELSE IF b = 0 THEN a
    ELSE (IF a % 2 = 1 \/ b % 2 = 1 THEN 1 ELSE 0) + 2 * BitOr(a \div 2, b \div 2)

RECURSIVE BitXor(_, _)
BitXor(a, b) ==
    IF a = 0 THEN b
    ELSE IF b = 0 THEN a
    ELSE (((a % 2) + (b % 2)) % 2) + 2 * BitXor(a \div 2, b \div 2)

\* u8::wrapping_add
wrapping_add(a, b) == (a + b) % 256

\* u8::overflowing_add: the wrapped sum and whether it overflowed
overflowing_add(a, b) == [result |-> (a + b) % 256, carry |-> a + b > 255]

\* overflowing_sub that reports a borrow for equal operands too
overflowing_sub_borrows_on_equal(a, b) ==
    [result |-> (a - b + 256) % 256, borrow |-> a <= b]

\* u8::overflowing_sub: the wrapped difference and whether it borrowed
overflowing_sub(a, b) == [result |-> (a - b + 256) % 256, borrow |-> a < b]

\* `b as u8` of a bool
bool_as_u8(b) == IF b THEN 1 ELSE 0

(***************************************************************************)
(* Results.  status is "Ok", "Err" or "Panic"; flag is the bool of an      *)
(* Ok(bool); error names the EmulatorError variant (or the panic) and info *)
(* is what it carries.                                                     *)
(***************************************************************************)
NoInfo == [none |-> TRUE]

Ok(flag) == [status |-> "Ok", flag |-> flag, error |-> "", info |-> NoInfo]

Err(error, info) == [status |-> "Err", flag |-> FALSE, error |-> error, info |-> info]

\* `array[i]` with i outside the array: "index out of bounds" panic
Panic(array, i) ==
    [status |-> "Panic", flag |-> FALSE, error |-> "index out of bounds",
     info |-> [array |-> array, index |-> i]]

ProgramTooLarge(size) == Err("ProgramTooLarge", [size |-> size])
PcOutOfBounds == Err("PcOutOfBounds", NoInfo)
InvalidInstruction(instruction) == Err("InvalidInstruction", instruction)
PoppedEmptyStack == Err("PoppedEmptyStack", NoInfo)
StackOverflow == Err("StackOverflow", NoInfo)

(***************************************************************************)
(* Instruction::from_opcode                                                *)
(***************************************************************************)
from_opcode(opcode) ==
    [operation |-> opcode \div 4096,
     x |-> (opcode \div 256) % 16,
     y |-> (opcode \div 16) % 16,
     n |-> opcode % 16,
     nn |-> opcode % 256,
     nnn |-> opcode % 4096]

(***************************************************************************)
(* Emulator::new.  `program` is a sequence of bytes (1-based, so program   *)
(* byte i of the source is program[i+1]).                                  *)
(***************************************************************************)
new_memory(program) ==
    [a \in 0 .. MEMORY_LEN - 1 |->
        IF a >= FONT_BASE_ADDRESS /\ a < FONT_BASE_ADDRESS + Len(FONT)
        THEN FONT[a - FONT_BASE_ADDRESS + 1]
        ELSE IF a >= CODE_BASE_ADDRESS /\ a < CODE_BASE_ADDRESS + Len(program)
        THEN program[a - CODE_BASE_ADDRESS + 1]
        ELSE 0]

\* The machine before any is constructed (no Emulator value exists).
NoMachine ==
    [memory |-> <<>>, display |-> <<>>, pc |-> -1, index |-> -1, stack |-> <<>>,
     sp |-> -1, delay_timer |-> -1, sound_timer |-> -1, registers |-> <<>>,
     keypad |-> <<>>, shift_sets_vx |-> FALSE,
     jump_with_offset_bug_emulation |-> FALSE,
     increment_i_on_store_and_load |-> FALSE]

\* The Emulator value `new` builds once the size check has passed
new_emulator(program, shift_sets_vx_, jump_with_offset_bug_emulation_, increment_i_on_store_and_load_) ==
    [memory |-> new_memory(program),
     display |-> [r \in 0 .. DISPLAY_HEIGHT - 1 |-> [c \in 0 .. DISPLAY_WIDTH - 1 |-> FALSE]],
     pc |-> 512,
     index |-> 0,
     stack |-> [i \in 0 .. STACK_LEN - 1 |-> 0],
     sp |-> 0,
     delay_timer |-> 0,
     sound_timer |-> 0,
     registers |-> [i \in 0 .. REGISTERS_LEN - 1 |-> 0],
     keypad |-> [i \in 0 .. KEYPAD_LEN - 1 |-> FALSE],
     shift_sets_vx |-> shift_sets_vx_,
     jump_with_offset_bug_emulation |-> jump_with_offset_bug_emulation_,
     increment_i_on_store_and_load |-> increment_i_on_store_and_load_]

\* new with the size check off by one: an image of exactly 3584 bytes is refused
new_refuses_full_image(program, shift_sets_vx_, jump_with_offset_bug_emulation_, increment_i_on_store_and_load_) ==
    IF Len(program) >= MEMORY_LEN - CODE_BASE_ADDRESS
    THEN [m |-> NoMachine, res |-> ProgramTooLarge(Len(program))]
    ELSE [m |-> new_emulator(program, shift_sets_vx_, jump_with_offset_bug_emulation_,
                             increment_i_on_store_and_load_),
          res |-> Ok(FALSE)]

new(program, shift_sets_vx_, jump_with_offset_bug_emulation_, increment_i_on_store_and_load_) ==
    IF Len(program) > MEMORY_LEN - CODE_BASE_ADDRESS
    THEN [m |-> NoMachine, res |-> ProgramTooLarge(Len(program))]
    ELSE [m |-> new_emulator(program, shift_sets_vx_, jump_with_offset_bug_emulation_,
                             increment_i_on_store_and_load_),
          res |-> Ok(FALSE)]

(***************************************************************************)
(* Emulator::tick_clock                                                    *)
(***************************************************************************)
\* tick_clock that decrements with no test for zero (u8 wrapping)
tick_clock_wraps(m) ==
    [m EXCEPT !.delay_timer = (m.delay_timer + 255) % 256,
              !.sound_timer = (m.sound_timer + 255) % 256]

tick_clock(m) ==
    LET m1 == IF m.delay_timer > 0
              THEN [m EXCEPT !.delay_timer = m.delay_timer - 1] ELSE m
    IN  IF m1.sound_timer > 0
        THEN [m1 EXCEPT !.sound_timer = m1.sound_timer - 1] ELSE m1

(***************************************************************************)
(* Emulator::fetch_opcode                                                  *)
(***************************************************************************)
NoOpcode == -1

fetch_opcode(m) ==
    IF m.pc >= MEMORY_LEN
    THEN [m |-> m, res |-> PcOutOfBounds, opcode |-> NoOpcode]
    ELSE IF m.pc + 1 >= MEMORY_LEN
    THEN [m |-> m, res |-> Panic("memory", m.pc + 1), opcode |-> NoOpcode]
    ELSE [m |-> [m EXCEPT !.pc = m.pc + 2],
          res |-> Ok(FALSE),
          opcode |-> m.memory[m.pc] * 256 + m.memory[m.pc + 1]]

(***************************************************************************)
(* The operation handlers.                                                 *)
(***************************************************************************)
\* operation_0 whose return reads the stack before it decrements the stack
\* pointer, and so takes the slot above the top
operation_0_reads_above_top(m, instruction) ==
    CASE instruction.nnn = \h0E0 ->
            [m |-> [m EXCEPT !.display =
                        [r \in 0 .. DISPLAY_HEIGHT - 1 |->
                            [c \in 0 .. DISPLAY_WIDTH - 1 |-> FALSE]]],
             res |-> Ok(FALSE)]
      [] instruction.nnn = \h0EE ->
            IF m.sp = 0
            THEN [m |-> m, res |-> PoppedEmptyStack]
            ELSE IF m.sp >= STACK_LEN
            THEN [m |-> m, res |-> Panic("stack", m.sp)]
            ELSE [m |-> [m EXCEPT !.sp = m.sp - 1, !.pc = m.stack[m.sp]],
                  res |-> Ok(FALSE)]
      [] OTHER -> [m |-> m, res |-> InvalidInstruction(instruction)]

\* operation_0 whose clear of the screen also clears the collision flag VF
operation_0_clear_resets_flag(m, instruction) ==
    CASE instruction.nnn = \h0E0 ->
            [m |-> [m EXCEPT !.display =
                        [r \in 0 .. DISPLAY_HEIGHT - 1 |->
                            [c \in 0 .. DISPLAY_WIDTH - 1 |-> FALSE]],
                     !.registers[15] = 0],
             res |-> Ok(FALSE)]
      [] instruction.nnn = \h0EE ->
            IF m.sp = 0
            THEN [m |-> m, res |-> PoppedEmptyStack]
            ELSE [m |-> [m EXCEPT !.sp = m.sp - 1, !.pc = m.stack[m.sp - 1]],
                  res |-> Ok(FALSE)]
      [] OTHER -> [m |-> m, res |-> InvalidInstruction(instruction)]

\* operation_0 whose clear of the screen returns true
operation_0_reports_clear(m, instruction) ==
    CASE instruction.nnn = \h0E0 ->
            [m |-> [m EXCEPT !.display =
                        [r \in 0 .. DISPLAY_HEIGHT - 1 |->
                            [c \in 0 .. DISPLAY_WIDTH - 1 |-> FALSE]]],
             res |-> Ok(TRUE)]
      [] instruction.nnn = \h0EE ->
            IF m.sp = 0
            THEN [m |-> m, res |-> PoppedEmptyStack]
            ELSE [m |-> [m EXCEPT !.sp = m.sp - 1, !.pc = m.stack[m.sp - 1]],
                  res |-> Ok(FALSE)]
      [] OTHER -> [m |-> m, res |-> InvalidInstruction(instruction)]

operation_0(m, instruction) ==
    CASE instruction.nnn = \h0E0 ->
            [m |-> [m EXCEPT !.display =
                        [r \in 0 .. DISPLAY_HEIGHT - 1 |->
                            [c \in 0 .. DISPLAY_WIDTH - 1 |-> FALSE]]],
             res |-> Ok(FALSE)]
      [] instruction.nnn = \h0EE ->
            IF m.sp = 0
            THEN [m |-> m, res |-> PoppedEmptyStack]
            ELSE [m |-> [m EXCEPT !.sp = m.sp - 1, !.pc = m.stack[m.sp - 1]],
                  res |-> Ok(FALSE)]
      [] OTHER -> [m |-> m, res |-> InvalidInstruction(instruction)]

operation_1(m, instruction) ==
    [m |-> [m EXCEPT !.pc = instruction.nnn], res |-> Ok(FALSE)]

\* operation_2 with no check of the capacity: the write is skipped when the
\* stack is full and the stack pointer still grows
operation_2_unchecked(m, instruction) ==
    LET m1 == IF m.sp < STACK_LEN THEN [m EXCEPT !.stack[m.sp] = m.pc] ELSE m
    IN  [m |-> [m1 EXCEPT !.sp = m.sp + 1, !.pc = instruction.nnn], res |-> Ok(FALSE)]

operation_2(m, instruction) ==
    IF m.sp >= STACK_LEN
    THEN [m |-> m, res |-> Panic("stack", m.sp)]
    ELSE LET m1 == [m EXCEPT !.stack[m.sp] = m.pc, !.sp = m.sp + 1]
         IN  IF m1.sp = STACK_LEN
             THEN [m |-> m1, res |-> StackOverflow]
             ELSE [m |-> [m1 EXCEPT !.pc = instruction.nnn], res |-> Ok(FALSE)]

operation_3(m, instruction) ==
    [m |-> IF m.registers[instruction.x] = instruction.nn
           THEN [m EXCEPT !.pc = m.pc + 2] ELSE m,
     res |-> Ok(FALSE)]

operation_4(m, instruction) ==
    [m |-> IF m.registers[instruction.x] # instruction.nn
           THEN [m EXCEPT !.pc = m.pc + 2] ELSE m,
     res |-> Ok(FALSE)]

operation_5(m, instruction) ==
    [m |-> IF m.registers[instruction.x] = m.registers[instruction.y]
           THEN [m EXCEPT !.pc = m.pc + 2] ELSE m,
     res |-> Ok(FALSE)]

operation_6(m, instruction) ==
    [m |-> [m EXCEPT !.registers[instruction.x] = instruction.nn],
     res |-> Ok(FALSE)]

operation_7(m, instruction) ==
    [m |-> [m EXCEPT !.registers[instruction.x] =
                wrapping_add(m.registers[instruction.x], instruction.nn)],
     res |-> Ok(FALSE)]

\* The two register writes in the other order: VF first, then Vx
set_vf_then_vx(m, x, v, f) ==
    [m EXCEPT !.registers = [[m.registers EXCEPT ![15] = f] EXCEPT ![x] = v]]

\* `self.registers[x] = v; self.registers[0xF] = f`, in this order
set_vx_then_vf(m, x, v, f) ==
    [m EXCEPT !.registers = [[m.registers EXCEPT ![x] = v] EXCEPT ![15] = f]]

\* The shift arms: the optional copy of Vy, then VF from Vx, then the shift of Vx
shift(m, instruction, left) ==
    LET m1 == IF m.shift_sets_vx
              THEN [m EXCEPT !.registers[instruction.x] = m.registers[instruction.y]]
              ELSE m
        m2 == [m1 EXCEPT !.registers[15] =
                  IF left THEN (m1.registers[instruction.x] \div 128) % 2
                  ELSE m1.registers[instruction.x] % 2]
    IN  [m2 EXCEPT !.registers[instruction.x] =
            IF left THEN (m2.registers[instruction.x] * 2) % 256
            ELSE m2.registers[instruction.x] \div 2]

operation_8(m, instruction) ==
    LET x == instruction.x
        vx == m.registers[instruction.x]
        vy == m.registers[instruction.y]
    IN  CASE instruction.n = 0 ->
                [m |-> [m EXCEPT !.registers[x] = vy], res |-> Ok(FALSE)]
          [] instruction.n = 1 ->
                [m |-> [m EXCEPT !.registers[x] = BitOr(vx, vy)], res |-> Ok(FALSE)]
          [] instruction.n = 2 ->
                [m |-> [m EXCEPT !.registers[x] = BitAnd(vx, vy)], res |-> Ok(FALSE)]
          [] instruction.n = 3 ->
                [m |-> [m EXCEPT !.registers[x] = BitXor(vx, vy)], res |-> Ok(FALSE)]
          [] instruction.n = 4 ->
                LET r == overflowing_add(vx, vy)
                IN  [m |-> set_vx_then_vf(m, x, r.result, bool_as_u8(r.carry)),
                     res |-> Ok(FALSE)]
          [] instruction.n = 5 ->
                LET r == overflowing_sub(vx, vy)
                IN  [m |-> set_vx_then_vf(m, x, r.result, bool_as_u8(~r.borrow)),
                     res |-> Ok(FALSE)]
          [] instruction.n = 6 ->
                [m |-> shift(m, instruction, FALSE), res |-> Ok(FALSE)]
          [] instruction.n = 7 ->
                LET r == overflowing_sub(vy, vx)
                IN  [m |-> set_vx_then_vf(m, x, r.result, bool_as_u8(~r.borrow)),
                     res |-> Ok(FALSE)]
          [] instruction.n = 14 ->
                [m |-> shift(m, instruction, TRUE), res |-> Ok(FALSE)]
          [] OTHER -> [m |-> m, res |-> InvalidInstruction(instruction)]

operation_9(m, instruction) ==
    [m |-> IF m.registers[instruction.x] # m.registers[instruction.y]
           THEN [m EXCEPT !.pc = m.pc + 2] ELSE m,
     res |-> Ok(FALSE)]

operation_a(m, instruction) ==
    [m |-> [m EXCEPT !.index = instruction.nnn], res |-> Ok(FALSE)]

operation_b(m, instruction) ==
    [m |-> IF m.jump_with_offset_bug_emulation
           THEN [m EXCEPT !.pc = instruction.nnn + m.registers[instruction.x]]
           ELSE [m EXCEPT !.pc = instruction.nnn + m.registers[0]],
     res |-> Ok(FALSE)]

\* random is the byte random::<u8>() returned
operation_c(m, instruction, random) ==
    [m |-> [m EXCEPT !.registers[instruction.x] = BitAnd(random, instruction.nn)],
     res |-> Ok(FALSE)]

(***************************************************************************)
(* operation_d: the sprite draw.  draw_cols is the inner loop over the 8   *)
(* pixels of one sprite row from column `col` on, draw_rows the outer loop *)
(* from row `row` on; both read the registers as they are when reached.    *)
(***************************************************************************)
RECURSIVE draw_cols(_, _, _, _, _)
draw_cols(m, y, x, sprite_row, col) ==
    IF col >= 8 THEN m
    ELSE LET sprite_pixel == (sprite_row \div (2 ^ (7 - col))) % 2 = 1
             display_pixel == m.display[y][x]
             m1 == IF sprite_pixel /\ display_pixel
                   THEN [m EXCEPT !.registers[15] = 1] ELSE m
             m2 == [m1 EXCEPT !.display[y][x] = (display_pixel # sprite_pixel)]
         IN  IF x + 1 >= DISPLAY_WIDTH THEN m2
             ELSE draw_cols(m2, y, x + 1, sprite_row, col + 1)

RECURSIVE draw_rows(_, _, _, _)
draw_rows(m, instruction, y, row) ==
    IF row >= instruction.n THEN [m |-> m, res |-> Ok(TRUE)]
    ELSE LET x == m.registers[instruction.x] % DISPLAY_WIDTH
             address == m.index + row
         IN  IF address >= MEMORY_LEN
             THEN [m |-> m, res |-> Panic("memory", address)]
             ELSE LET m1 == draw_cols(m, y, x, m.memory[address], 0)
                  IN  IF y + 1 >= DISPLAY_HEIGHT THEN [m |-> m1, res |-> Ok(TRUE)]
                      ELSE draw_rows(m1, instruction, y + 1, row + 1)

\* operation_d that does not clear VF before it draws
operation_d_keeps_flag(m, instruction) ==
    LET y == m.registers[instruction.y] % DISPLAY_HEIGHT
    IN  draw_rows(m, instruction, y, 0)

\* operation_d that returns whether the draw changed a cell of the display
operation_d_reports_change(m, instruction) ==
    LET m0 == [m EXCEPT !.registers[15] = 0]
        y == m0.registers[instruction.y] % DISPLAY_HEIGHT
        r == draw_rows(m0, instruction, y, 0)
    IN  IF r.res.status = "Ok"
        THEN [m |-> r.m, res |-> Ok(r.m.display # m.display)]
        ELSE r

operation_d(m, instruction) ==
    LET m0 == [m EXCEPT !.registers[15] = 0]
        y == m0.registers[instruction.y] % DISPLAY_HEIGHT
    IN  draw_rows(m0, instruction, y, 0)

(***************************************************************************)
(* operation_e: the key skips.                                             *)
(***************************************************************************)
key_skip(m, instruction, pressed) ==
    LET key == m.registers[instruction.x]
    IN  IF key > 16
        THEN [m |-> m, res |-> InvalidInstruction(instruction)]
        ELSE IF key >= KEYPAD_LEN
        THEN [m |-> m, res |-> Panic("keypad", key)]
        ELSE [m |-> IF m.keypad[key] = pressed
                    THEN [m EXCEPT !.pc = m.pc + 2] ELSE m,
              res |-> Ok(FALSE)]

operation_e(m, instruction) ==
    CASE instruction.nn = \h9E -> key_skip(m, instruction, TRUE)
      [] instruction.nn = \hA1 -> key_skip(m, instruction, FALSE)
      [] OTHER -> [m |-> m, res |-> InvalidInstruction(instruction)]

(***************************************************************************)
(* operation_f                                                             *)
(***************************************************************************)
\* The keys pressed, for the scan of FX0A
pressed_keys(m) == {k \in 0 .. KEYPAD_LEN - 1 : m.keypad[k]}

\* The scan taken in descending order: the last pressed key
last_pressed(m) ==
    CHOOSE k \in pressed_keys(m) : \A j \in pressed_keys(m) : k >= j

\* The first pressed key in ascending order (pressed_keys(m) is not empty)
first_pressed(m) ==
    CHOOSE k \in pressed_keys(m) : \A j \in pressed_keys(m) : k <= j

\* wait_key that leaves the program counter past the instruction when no key
\* is pressed
wait_key_no_rewind(m, instruction) ==
    IF pressed_keys(m) # {}
    THEN [m EXCEPT !.registers[instruction.x] = first_pressed(m)]
    ELSE m

wait_key(m, instruction) ==
    IF pressed_keys(m) # {}
    THEN [m EXCEPT !.registers[instruction.x] = first_pressed(m)]
    ELSE [m EXCEPT !.pc = m.pc - 2]

RECURSIVE store_bytes(_, _, _)
\* The writes of the bytes `values` (a sequence) at address, address+1, ...
\* in order, up to the first one out of bounds.
store_bytes(m, address, values) ==
    IF values = <<>> THEN [m |-> m, res |-> Ok(FALSE)]
    ELSE IF address >= MEMORY_LEN
    THEN [m |-> m, res |-> Panic("memory", address)]
    ELSE store_bytes([m EXCEPT !.memory[address] = Head(values)],
                     address + 1, Tail(values))

bcd(m, instruction) ==
    LET value == m.registers[instruction.x]
    IN  store_bytes(m, m.index,
                    << value \div 100, (value % 100) \div 10, (value % 100) % 10 >>)

\* increment_i that adds x, not x + 1
increment_i_by_x(r, instruction) ==
    IF r.res.status = "Ok" /\ r.m.increment_i_on_store_and_load
    THEN [r EXCEPT !.m.index = r.m.index + instruction.x]
    ELSE r

\* index += x + 1 under the quirk, after a store or load that completed
increment_i(r, instruction) ==
    IF r.res.status = "Ok" /\ r.m.increment_i_on_store_and_load
    THEN [r EXCEPT !.m.index = r.m.index + instruction.x + 1]
    ELSE r

store_registers(m, instruction) ==
    increment_i(store_bytes(m, m.index,
                            [i \in 1 .. instruction.x + 1 |-> m.registers[i - 1]]),
                instruction)

RECURSIVE load_bytes(_, _, _)
\* The reads of registers i .. x from memory[index + i], in order, up to
\* the first one out of bounds.
load_bytes(m, instruction, i) ==
    IF i >= instruction.x + 1 THEN [m |-> m, res |-> Ok(FALSE)]
    ELSE IF m.index + i >= MEMORY_LEN
    THEN [m |-> m, res |-> Panic("memory", m.index + i)]
    ELSE load_bytes([m EXCEPT !.registers[i] = m.memory[m.index + i]],
                    instruction, i + 1)

load_registers(m, instruction) ==
    increment_i(load_bytes(m, instruction, 0), instruction)

\* add_to_index that takes the sum 0xFFF for an overflow too
add_to_index_flags_top(m, instruction) ==
    LET sum == m.index + m.registers[instruction.x]
    IN  IF sum >= \hFFF
        THEN [m EXCEPT !.registers[15] = 1, !.index = sum % 4096]
        ELSE [m EXCEPT !.registers[15] = 0, !.index = sum]

add_to_index(m, instruction) ==
    LET sum == m.index + m.registers[instruction.x]
    IN  IF sum > \hFFF
        THEN [m EXCEPT !.registers[15] = 1, !.index = sum % 4096]
        ELSE [m EXCEPT !.registers[15] = 0, !.index = sum]

operation_f(m, instruction) ==
    LET x == instruction.x
    IN  CASE instruction.nn = \h07 ->
                [m |-> [m EXCEPT !.registers[x] = m.delay_timer], res |-> Ok(FALSE)]
          [] instruction.nn = \h15 ->
                [m |-> [m EXCEPT !.delay_timer = m.registers[x]], res |-> Ok(FALSE)]
          [] instruction.nn = \h18 ->
                [m |-> [m EXCEPT !.sound_timer = m.registers[x]], res |-> Ok(FALSE)]
          [] instruction.nn = \h1E ->
                [m |-> add_to_index(m, instruction), res |-> Ok(FALSE)]
          [] instruction.nn = \h0A ->
                [m |-> wait_key(m, instruction), res |-> Ok(FALSE)]
          [] instruction.nn = \h29 ->
                [m |-> [m EXCEPT !.index = (m.registers[x] % 16) * 5 + FONT_BASE_ADDRESS],
                 res |-> Ok(FALSE)]
          [] instruction.nn = \h33 -> bcd(m, instruction)
          [] instruction.nn = \h55 -> store_registers(m, instruction)
          [] instruction.nn = \h65 -> load_registers(m, instruction)
          [] OTHER -> [m |-> m, res |-> InvalidInstruction(instruction)]

(***************************************************************************)
(* Emulator::execute_opcode and Emulator::step                             *)
(***************************************************************************)
execute_opcode(m, opcode, random) ==
    LET instruction == from_opcode(opcode)
    IN  CASE instruction.operation = 0 -> operation_0(m, instruction)
          [] instruction.operation = 1 -> operation_1(m, instruction)
          [] instruction.operation = 2 -> operation_2(m, instruction)
          [] instruction.operation = 3 -> operation_3(m, instruction)
          [] instruction.operation = 4 -> operation_4(m, instruction)
          [] instruction.operation = 5 -> operation_5(m, instruction)
          [] instruction.operation = 6 -> operation_6(m, instruction)
          [] instruction.operation = 7 -> operation_7(m, instruction)
          [] instruction.operation = 8 -> operation_8(m, instruction)
          [] instruction.operation = 9 -> operation_9(m, instruction)
          [] instruction.operation = 10 -> operation_a(m, instruction)
          [] instruction.operation = 11 -> operation_b(m, instruction)
          [] instruction.operation = 12 -> operation_c(m, instruction, random)
          [] instruction.operation = 13 -> operation_d(m, instruction)
          [] instruction.operation = 14 -> operation_e(m, instruction)
          [] instruction.operation = 15 -> operation_f(m, instruction)
          [] OTHER -> [m |-> m, res |-> InvalidInstruction(instruction)]

\* opcode is the word step fetched, NoOpcode when the fetch failed
step(m, random) ==
    LET f == fetch_opcode(m)
    IN  IF f.res.status # "Ok"
        THEN [m |-> f.m, res |-> f.res, opcode |-> NoOpcode]
        ELSE LET e == execute_opcode(f.m, f.opcode, random)
             IN  [m |-> e.m, res |-> e.res, opcode |-> f.opcode]

(***************************************************************************)
(* Programs.  Asm turns a sequence of 16-bit words into the byte image     *)
(* (big-endian, as fetch_opcode reads it).                                 *)
(***************************************************************************)
Asm(words) ==
    [i \in 1 .. 2 * Len(words) |->
        IF i % 2 = 1 THEN words[(i + 1) \div 2] \div 256 ELSE words[i \div 2] % 256]

\* Chain(k), k nested calls through k distinct call sites, then k returns:
\*   0x200: call level 1;  0x202: jump 0x202
\*   level i < k, at 0x204 + 4(i-1): call level i+1; return
\*   level k: return
Level(i) == 516 + 4 * (i - 1)

Chain(k) ==
    Asm([w \in 1 .. 2 * k + 2 |->
            IF w = 1 THEN \h2000 + Level(1)
            ELSE IF w = 2 THEN \h1202
            ELSE IF w % 2 = 0 THEN \h00EE
            ELSE IF (w - 1) \div 2 < k THEN \h2000 + Level((w - 1) \div 2 + 1)
            ELSE \h00EE])

\* 0x200: call 0x200 (until the stack is full); 0x202: call 0x202
StackFullCallProgram == Asm(<< \h2200, \h2202 >>)

\* 0x200: call 0x206; 0x202: return (on the empty stack); 0x204: jump 0x204;
\* 0x206: return
CallReturnReturnProgram == Asm(<< \h2206, \h00EE, \h1204, \h00EE >>)

StackPrograms ==
    {Chain(k) : k \in ChainDepths}
        \cup {StackFullCallProgram, CallReturnReturnProgram}

\* 0x200: jump to address; what lies there is zero bytes
JumpProgram(address) == Asm(<< \h1000 + address >>)

\* 0x200: V0 := 0xFF; 0x202: jump 0xFFF + V0 (or + VF under the quirk)
OffsetJumpProgram == Asm(<< \h60FF, \hBFFF >>)

PcPrograms ==
    {JumpProgram(address) : address \in {\hFFD, \hFFE, \hFFF}} \cup {OffsetJumpProgram}

\* 0x200: V0 := 1, V1 := 2; 0x204: index := address; 0x206: the word that
\* reads or writes memory at index; 0x208: the same word again; 0x20A: jump 0x20A
MemoryProgram(address, word) ==
    Asm(<< \h6001, \h6102, \hA000 + address, word, word, \h120A >>)

\* draw 1 and 2 rows, BCD of V0, store and load V0 and V0..V1
MemoryWords == {\hD001, \hD002, \hF033, \hF055, \hF155, \hF065, \hF165}

MemoryPrograms ==
    {MemoryProgram(address, word) :
        address \in {\hFFC, \hFFD, \hFFE, \hFFF}, word \in MemoryWords}

\* 0x200: V0 := value; 0x202: the key skip E0nn; 0x204: jump 0x204;
\* 0x206: jump 0x206
KeyProgram(value, nn) == Asm(<< \h6000 + value, \hE000 + nn, \h1204, \h1206 >>)

KeyPrograms ==
    {KeyProgram(value, nn) : value \in {0, 1, 15, 16, 17, 255}, nn \in {\h9E, \hA1}}

\* 0x200: word; 0x202: jump 0x202; 0x204: jump 0x204
WordProgram(word) == Asm(<< word, \h1202, \h1204 >>)

\* Words of every class, with the subfields at and next to the defined ones
DecodeWords ==
    {\h0000, \h00E0, \h00EE, \h00E1, \h00ED, \h00EF, \h01E0, \h0EE0, \h0FFF,
     \h2204, \hB204,
     \h3000, \h4000, \h5000, \h5001, \h7001, \h9000, \h9001, \hC0FF}
        \cup {\h8120 + n : n \in 0 .. 15}
        \cup {\hE000 + nn : nn \in {\h00, \h9D, \h9E, \h9F, \hA0, \hA1, \hA2, \h1E, \hFF}}
        \cup {\hF000 + nn : nn \in {\h00, \h06, \h07, \h08, \h09, \h0A, \h0B, \h14,
                                    \h15, \h16, \h17, \h18, \h19, \h1D, \h1E, \h1F,
                                    \h28, \h29, \h2A, \h32, \h33, \h34, \h54, \h55,
                                    \h56, \h64, \h65, \h66, \h75, \h85, \hFF}}

DecodePrograms == {WordProgram(word) : word \in DecodeWords}

Programs == PcPrograms \cup MemoryPrograms \cup KeyPrograms \cup DecodePrograms

\* 0x200: V0 := 234, V1 := 7; 0x204: index := address; 0x206: word;
\* 0x208: jump 0x208
FontProgram(address, word) ==
    Asm(<< \h60EA, \h6107, \hA000 + address, word, \h1208 >>)

\* BCD of V0, store V0 and V0..V1, load V0, draw one row
FontWords == {\hF033, \hF055, \hF155, \hF065, \hD001}

\* Addresses below, at the ends of, and above the glyph table
FontAddresses == {\h04D, \h04F, \h050, \h09D, \h09F, \h0A0}

FontPrograms ==
    {FontProgram(address, word) : address \in FontAddresses, word \in FontWords}

\* A background of two rows drawn through V1, V2 at (vx, vy), then the sprite
\* of n rows drawn twice through VX, VY at (vx, vy):
\*   0x200: V1 := vx; V2 := vy; index := 0x218; draw V1 V2 2
\*   0x208: VX := vx; VY := vy; index := 0x21A
\*   0x20E: draw X Y n; 0x210: draw X Y n; 0x212: jump 0x212
\*   0x218: the two bytes of the background; 0x21A: the two bytes of the sprite
DrawProgram(X, Y, vx, vy, n, background, sprite) ==
    Asm(<< \h6100 + vx, \h6200 + vy, \hA218, \hD122,
           \h6000 + 256 * X + vx, \h6000 + 256 * Y + vy, \hA21A,
           \hD000 + 256 * X + 16 * Y + n, \hD000 + 256 * X + 16 * Y + n, \h1212,
           \h0000, \h0000, background, sprite >>)

\* The register pairs X, Y of the draws: distinct, equal, and with the flag register
DrawRegisters == {<< 3, 4 >>, << 3, 3 >>, << 15, 4 >>, << 3, 15 >>, << 15, 15 >>}

\* vx, vy, n, background, sprite: a sprite on the blank framebuffer; on a lit
\* background from a start that wraps (70 mod 64, 40 mod 32); clipped at the
\* right and bottom edges; of no rows; of no set bit; of three rows, the third
\* read from the zero byte after the sprite
DrawCases ==
    {<< 0, 0, 2, \h0000, \hF090 >>,
     << 70, 40, 2, \hFF0F, \hF090 >>,
     << 60, 31, 2, \hFFFF, \hFF81 >>,
     << 5, 5, 0, \hFF0F, \hFFFF >>,
     << 5, 5, 2, \h0000, \h0000 >>,
     << 62, 30, 3, \hC0C0, \hFFFF >>}

DrawPrograms ==
    {DrawProgram(r[1], r[2], c[1], c[2], c[3], c[4], c[5]) :
        r \in DrawRegisters, c \in DrawCases}

\* 0x200: index := 0x20A (the sprite); draw V0 V0 2 at (0, 0); clear the screen;
\* clear it again; 0x208: jump 0x208; 0x20A: the sprite
ClearProgram(sprite) == Asm(<< \hA20A, \hD002, \h00E0, \h00E0, \h1208, sprite >>)

\* 0x200: index := 0x20A (the sprite); draw V0 V0 2 at (0, 0); VF := 7; clear
\* the screen; 0x208: jump 0x208; 0x20A: the sprite
FlagClearProgram == Asm(<< \hA20A, \hD002, \h6F07, \h00E0, \h1208, \hF090 >>)

ClearPrograms ==
    {ClearProgram(sprite) : sprite \in {\h0000, \hF090}} \cup {FlagClearProgram}

\* The bytes 00 E0, 60 05, A2 0A, D0 05: clear the screen, V0 := 5,
\* index := 0x20A, draw V0 V0 5
ScenarioProgram == << \h00, \hE0, \h60, \h05, \hA2, \h0A, \hD0, \h05 >>

FramebufferPrograms == DrawPrograms \cup ClearPrograms \cup DecodePrograms

\* 0x200: VX := a; 0x202: VY := b; 0x204: the operation 8XYn; 0x206: jump 0x206
AluProgram(X, Y, a, b, n) ==
    Asm(<< \h6000 + 256 * X + a, \h6000 + 256 * Y + b,
           \h8000 + 256 * X + 16 * Y + n, \h1206 >>)

\* The register pairs X, Y: distinct, equal, and with the flag register
AluRegisters == {<< 1, 2 >>, << 1, 1 >>, << 15, 2 >>, << 1, 15 >>, << 15, 15 >>}

\* The values a, b: a carry and a borrow either way, the top and the bottom
\* bit set, equal operands
AluValues == {<< 255, 1 >>, << 1, 255 >>, << 128, 1 >>, << 7, 7 >>}

\* add, subtract, shift right, subtract reversed, shift left
AluOperations == {4, 5, 6, 7, 14}

AluPrograms ==
    {AluProgram(r[1], r[2], v[1], v[2], n) :
        r \in AluRegisters, v \in AluValues, n \in AluOperations}

\* 0x200: V0 := d; delay timer := V0; V1 := s; sound timer := V1;
\* 0x208: V2 := delay timer; 0x20A: jump 0x20A
TimerProgram(d, s) ==
    Asm(<< \h6000 + d, \hF015, \h6100 + s, \hF118, \hF207, \h120A >>)

\* Both timers left at 0, and each loaded with more than the other
TimerPrograms ==
    {TimerProgram(v[1], v[2]) : v \in {<< 0, 0 >>, << MaxTimer, 1 >>, << 1, MaxTimer >>}}

\* 0x200: V0 := 1; delay timer := V0; 0x204: VX := 9; 0x206: wait for a key
\* into VX; 0x208: jump 0x208
WaitProgram(X) == Asm(<< \h6001, \hF015, \h6009 + 256 * X, \hF00A + 256 * X, \h1208 >>)

WaitPrograms == {WaitProgram(X) : X \in {0, 5, 15}}

\* 0x200: V0 := 0x11, V1 := 0x22, V2 := 0x33, VF := 0x44; 0x208: index :=
\* address; 0x20A: store V0..VX; 0x20C: load V0..VX; 0x20E: jump 0x20E
StoreProgram(X, address) ==
    Asm(<< \h6011, \h6122, \h6233, \h6F44, \hA000 + address,
           \hF055 + 256 * X, \hF065 + 256 * X, \h120E >>)

StorePrograms ==
    {StoreProgram(X, address) : X \in {0, 1, 2, 15}, address \in {\h300, \hFF0}}

\* 0x200: V3 := 0x55; index := 0x208; 0x204: load V0..VX; 0x206: jump 0x206;
\* 0x208: the bytes A1 B2 C3 D4
LoadProgram(X) == Asm(<< \h6355, \hA208, \hF065 + 256 * X, \h1206, \hA1B2, \hC3D4 >>)

LoadPrograms == {LoadProgram(X) : X \in {0, 2, 15}}

\* 0x200: VX := v; index := i; 0x204: index += VX; 0x206: jump 0x206
IndexProgram(X, i, v) ==
    Asm(<< \h6000 + 256 * X + v, \hA000 + i, \hF01E + 256 * X, \h1206 >>)

\* The sums 0xFFF, 0x1000, 0x1000 and 0x105
IndexPrograms ==
    {IndexProgram(X, s[1], s[2]) :
        X \in {0, 15},
        s \in {<< \hFFF, 0 >>, << \hFFF, 1 >>, << \hF01, \hFF >>, << \h100, 5 >>}}

\* 0x200: V0 := 5; index := 0xFFF; 0x204: store V0 (index becomes 0x1000 under
\* the increment quirk); 0x206: index += V0; 0x208: jump 0x208
IndexAfterStoreProgram == Asm(<< \h6005, \hAFFF, \hF055, \hF01E, \h1208 >>)

IndexRegisterPrograms ==
    StorePrograms \cup LoadPrograms \cup IndexPrograms \cup {IndexAfterStoreProgram}

\* 0x200: index := 0x206 (the sprite); draw V0 V0 1 at (0, 0), lighting a
\* cell; 0x204: jump 0x204; 0x206: 80 00
LightProgram == Asm(<< \hA206, \hD001, \h1204, \h8000 >>)

\* 0x200: V0 := 1; 0x202: the word 0000, which no operation is defined for
FailProgram == Asm(<< \h6001, \h0000 >>)

RunPrograms == {LightProgram, FailProgram}

\* The images construction is tried with: image i of `size` bytes filled from seed
Image(size, seed) == [i \in 1 .. size |-> (i * (2 * seed + 1) + seed) % 256]

ImageSizes ==
    (0 .. MaxSmall) \cup {MEMORY_LEN - CODE_BASE_ADDRESS + d : d \in (0 - MaxDelta) .. MaxDelta}

Images == {Image(size, seed) : size \in ImageSizes, seed \in 0 .. MaxSeed}

(***************************************************************************)
(* State: the fields of the Emulator, the arguments it was constructed     *)
(* from, the Result of the latest call of new or step, the word that step  *)
(* fetched, and the state of Interface::run.                               *)
(***************************************************************************)
VARIABLES memory, display, pc, index, stack, sp, delay_timer, sound_timer,
          registers, keypad, shift_sets_vx, jump_with_offset_bug_emulation,
          increment_i_on_store_and_load, args, ret, opcode, interface

machine == << memory, display, pc, index, stack, sp, delay_timer, sound_timer,
              registers, keypad, shift_sets_vx, jump_with_offset_bug_emulation,
              increment_i_on_store_and_load >>

vars == << machine, args, ret, opcode, interface >>

\* The Emulator value as a record
Self ==
    [memory |-> memory, display |-> display, pc |-> pc, index |-> index,
     stack |-> stack, sp |-> sp, delay_timer |-> delay_timer,
     sound_timer |-> sound_timer, registers |-> registers, keypad |-> keypad,
     shift_sets_vx |-> shift_sets_vx,
     jump_with_offset_bug_emulation |-> jump_with_offset_bug_emulation,
     increment_i_on_store_and_load |-> increment_i_on_store_and_load]

\* The state holds machine m
IsMachine(m) ==
    /\ memory = m.memory /\ display = m.display /\ pc = m.pc /\ index = m.index
    /\ stack = m.stack /\ sp = m.sp /\ delay_timer = m.delay_timer
    /\ sound_timer = m.sound_timer /\ registers = m.registers /\ keypad = m.keypad
    /\ shift_sets_vx = m.shift_sets_vx
    /\ jump_with_offset_bug_emulation = m.jump_with_offset_bug_emulation
    /\ increment_i_on_store_and_load = m.increment_i_on_store_and_load

\* The next state holds machine m
BecomesMachine(m) ==
    /\ memory' = m.memory /\ display' = m.display /\ pc' = m.pc /\ index' = m.index
    /\ stack' = m.stack /\ sp' = m.sp /\ delay_timer' = m.delay_timer
    /\ sound_timer' = m.sound_timer /\ registers' = m.registers /\ keypad' = m.keypad
    /\ shift_sets_vx' = m.shift_sets_vx
    /\ jump_with_offset_bug_emulation' = m.jump_with_offset_bug_emulation
    /\ increment_i_on_store_and_load' = m.increment_i_on_store_and_load

\* The Result res of a call of `call` ("new" or "step")
Returned(call, res) ==
    [call |-> call, status |-> res.status, flag |-> res.flag,
     error |-> res.error, info |-> res.info]

Args(program, s, j, i) ==
    [program |-> program, shift_sets_vx |-> s,
     jump_with_offset_bug_emulation |-> j, increment_i_on_store_and_load |-> i]

\* The state of Interface::run: where its two threads are, the `running`
\* field, the messages in its four channels and what the canvas shows.  Before
\* run is called there is none.
NotRunning ==
    [emulator_thread |-> "none", main_thread |-> "none", running |-> FALSE,
     display_channel |-> 0, clock_channel |-> 0, key_channel |-> << >>,
     run_channel |-> 0, canvas |-> << >>]

\* A machine exists and has not panicked
Alive == pc >= 0 /\ ret.status # "Panic"

(***************************************************************************)
(* The constructed machine, stepped and ticked by a driver.                *)
(***************************************************************************)
\* The state after `new` constructed a machine from one of `programs`
Constructed(programs) ==
    \E program \in programs, s \in BOOLEAN, j \in BOOLEAN, i \in BOOLEAN :
        LET r == new(program, s, j, i)
        IN  /\ args = Args(program, s, j, i)
            /\ IsMachine(r.m)
            /\ ret = Returned("new", r.res)
            /\ opcode = NoOpcode
            /\ interface = NotRunning

Init == Constructed(Programs)

\* The bytes random::<u8>() can return in the coming step: only operation_c
\* calls it
Randoms ==
    IF pc + 1 < MEMORY_LEN /\ memory[pc] \div 16 = 12 THEN RandomBytes ELSE {0}

Step ==
    /\ Alive
    /\ \E random \in Randoms :
        LET r == step(Self, random)
        IN  /\ BecomesMachine(r.m)
            /\ ret' = Returned("step", r.res)
            /\ opcode' = r.opcode
    /\ UNCHANGED << args, interface >>

TickClock ==
    /\ Alive
    /\ BecomesMachine(tick_clock(Self))
    /\ UNCHANGED << args, ret, opcode, interface >>

\* The driver's write of the public keypad field between steps
KeypadWrite ==
    /\ Alive
    /\ \E key \in 0 .. NumKeys - 1, state \in BOOLEAN :
        keypad' = [keypad EXCEPT ![key] = state]
    /\ UNCHANGED << memory, display, pc, index, stack, sp, delay_timer, sound_timer,
                    registers, shift_sets_vx, jump_with_offset_bug_emulation,
                    increment_i_on_store_and_load, args, ret, opcode, interface >>

Next == Step \/ TickClock \/ KeypadWrite

Spec == Init /\ [][Next]_vars

(***************************************************************************)
(* Construction: the arguments are drawn, no machine exists, and New calls *)
(* Emulator::new on them.                                                  *)
(***************************************************************************)
NotCalled ==
    [call |-> "none", status |-> "", flag |-> FALSE, error |-> "", info |-> NoInfo]

InitNew ==
    /\ \E program \in Images, s \in BOOLEAN, j \in BOOLEAN, i \in BOOLEAN :
            args = Args(program, s, j, i)
    /\ IsMachine(NoMachine)
    /\ ret = NotCalled
    /\ opcode = NoOpcode
    /\ interface = NotRunning

New ==
    /\ ret.call = "none"
    /\ LET r == new(args.program, args.shift_sets_vx,
                    args.jump_with_offset_bug_emulation,
                    args.increment_i_on_store_and_load)
       IN  /\ BecomesMachine(r.m)
           /\ ret' = Returned("new", r.res)
    /\ UNCHANGED << args, opcode, interface >>

NextNew == New

SpecNew == InitNew /\ [][NextNew]_vars

(***************************************************************************)
(* The same machine and driver, started on the programs that nest calls up *)
(* to the capacity of the stack.                                           *)
(***************************************************************************)
InitStack == Constructed(StackPrograms)

SpecStack == InitStack /\ [][Next]_vars

(***************************************************************************)
(* The same machine and driver, started on the programs that store and     *)
(* load around the glyph table.                                            *)
(***************************************************************************)
InitFont == Constructed(FontPrograms)

SpecFont == InitFont /\ [][Next]_vars

(***************************************************************************)
(* The same machine and driver, started on the programs that draw sprites  *)
(* and clear the screen, and on the one-word programs of every class.      *)
(***************************************************************************)
InitDraw == Constructed(FramebufferPrograms)

SpecDraw == InitDraw /\ [][Next]_vars

(***************************************************************************)
(* The scenario: the machine constructed from ScenarioProgram and stepped  *)
(* through the four instructions of the image.                             *)
(***************************************************************************)
InitScenario == Constructed({ScenarioProgram})

\* A step while the program counter is inside the image
StepScenario ==
    /\ pc < CODE_BASE_ADDRESS + Len(args.program)
    /\ Step

NextScenario == StepScenario \/ TickClock \/ KeypadWrite

SpecScenario == InitScenario /\ [][NextScenario]_vars

(***************************************************************************)
(* The same machine and driver, started on the programs of the arithmetic  *)
(* and shift operations.                                                   *)
(***************************************************************************)
InitAlu == Constructed(AluPrograms)

SpecAlu == InitAlu /\ [][Next]_vars

(***************************************************************************)
(* The same machine and driver, started on the programs that load the      *)
(* timers.                                                                 *)
(***************************************************************************)
InitTimer == Constructed(TimerPrograms)

SpecTimer == InitTimer /\ [][Next]_vars

(***************************************************************************)
(* The same machine and driver, started on the programs that wait for a    *)
(* key.                                                                    *)
(***************************************************************************)
InitWait == Constructed(WaitPrograms)

SpecWait == InitWait /\ [][Next]_vars

(***************************************************************************)
(* The same machine and driver, started on the programs that store and     *)
(* load registers and add to the index register.                           *)
(***************************************************************************)
InitIndex == Constructed(IndexRegisterPrograms)

SpecIndex == InitIndex /\ [][Next]_vars

(***************************************************************************)
(* Interface::run: the emulator thread and the main loop, one action per   *)
(* channel operation or call under the lock.  A thread that panics stops;  *)
(* the process ends when the main thread has returned or panicked.  The     *)
(* emulator thread, once it has exited or panicked, has dropped its ends   *)
(* of the channels, so a send to it fails; it panics only inside step,     *)
(* holding the write lock, which leaves the lock poisoned.                 *)
(***************************************************************************)
\* main has called run with the quirks at their defaults; the thread is
\* spawned and the canvas cleared
InitRun ==
    /\ \E program \in RunPrograms :
        LET r == new(program, FALSE, FALSE, FALSE)
        IN  /\ args = Args(program, FALSE, FALSE, FALSE)
            /\ IsMachine(r.m)
            /\ ret = Returned("new", r.res)
    /\ opcode = NoOpcode
    /\ interface =
        [emulator_thread |-> "check_run", main_thread |-> "check_running",
         running |-> TRUE, display_channel |-> 0, clock_channel |-> 0,
         key_channel |-> << >>, run_channel |-> 0,
         canvas |-> [r \in 0 .. DISPLAY_HEIGHT - 1 |->
                        [c \in 0 .. DISPLAY_WIDTH - 1 |-> FALSE]]]

\* The process is running
ProcessAlive == interface.main_thread \notin {"none", "returned", "panicked"}

\* The emulator thread has ended, dropping clock_rx, key_rx, run_rx, display_tx
EmulatorGone == interface.emulator_thread \in {"exited", "panicked"}

\* A send that counts the message: n messages become n + 1
Sent(n) == IF n < MaxPending THEN n + 1 ELSE MaxPending

EmulatorAt(position) == ProcessAlive /\ interface.emulator_thread = position
MainAt(position) == interface.main_thread = position

\* while run_rx.try_recv().is_err()
EmulatorCheckRun ==
    /\ EmulatorAt("check_run")
    /\ interface' =
        IF interface.run_channel > 0
        THEN [interface EXCEPT !.run_channel = 0, !.emulator_thread = "exited"]
        ELSE [interface EXCEPT !.emulator_thread = "step"]
    /\ UNCHANGED << machine, args, ret, opcode >>

\* emulator.write().unwrap().step().unwrap()
EmulatorStep ==
    /\ EmulatorAt("step")
    /\ \E random \in Randoms :
        LET r == step(Self, random)
        IN  /\ BecomesMachine(r.m)
            /\ ret' = Returned("step", r.res)
            /\ opcode' = r.opcode
            /\ interface' = [interface EXCEPT !.emulator_thread =
                                IF r.res.status # "Ok" THEN "panicked"
                                ELSE IF r.res.flag THEN "send" ELSE "clock"]
    /\ UNCHANGED args

\* display_tx.send(()).unwrap()
EmulatorSend ==
    /\ EmulatorAt("send")
    /\ interface' = [interface EXCEPT
                        !.display_channel = Sent(interface.display_channel),
                        !.emulator_thread = "clock"]
    /\ UNCHANGED << machine, args, ret, opcode >>

\* if clock_rx.try_recv().is_ok() { emulator.write().unwrap().tick_clock() }
EmulatorClock ==
    /\ EmulatorAt("clock")
    /\ IF interface.clock_channel > 0
       THEN /\ BecomesMachine(tick_clock(Self))
            /\ interface' = [interface EXCEPT
                                !.clock_channel = interface.clock_channel - 1,
                                !.emulator_thread = "keys"]
       ELSE /\ UNCHANGED machine
            /\ interface' = [interface EXCEPT !.emulator_thread = "keys"]
    /\ UNCHANGED << args, ret, opcode >>

\* while let Ok((key, state)) = key_rx.try_recv() { ...keypad[key] = state }
EmulatorKeys ==
    /\ EmulatorAt("keys")
    /\ IF interface.key_channel # << >>
       THEN LET event == Head(interface.key_channel)
            IN  /\ keypad' = [keypad EXCEPT ![event[1]] = event[2]]
                /\ interface' = [interface EXCEPT
                                    !.key_channel = Tail(interface.key_channel)]
       ELSE /\ UNCHANGED keypad
            /\ interface' = [interface EXCEPT !.emulator_thread = "check_run"]
    /\ UNCHANGED << memory, display, pc, index, stack, sp, delay_timer, sound_timer,
                    registers, shift_sets_vx, jump_with_offset_bug_emulation,
                    increment_i_on_store_and_load, args, ret, opcode >>

\* while self.running
MainCheckRunning ==
    /\ MainAt("check_running")
    /\ interface' = [interface EXCEPT !.main_thread =
                        IF interface.running THEN "poll" ELSE "stop"]
    /\ UNCHANGED << machine, args, ret, opcode >>

\* for event in event_pump.poll_iter() { self.handle_event(..) }: no event,
\* a quit, or a key going down or up (key_tx.send(..).unwrap())
MainPoll ==
    /\ MainAt("poll")
    /\ \/ interface' = [interface EXCEPT !.main_thread = "receive"]
       \/ interface' = [interface EXCEPT !.running = FALSE, !.main_thread = "receive"]
       \/ /\ Len(interface.key_channel) < MaxPending
          /\ \E key \in 0 .. NumKeys - 1, state \in BOOLEAN :
                interface' =
                    IF EmulatorGone
                    THEN [interface EXCEPT !.main_thread = "panicked"]
                    ELSE [interface EXCEPT
                            !.key_channel = Append(interface.key_channel, << key, state >>),
                            !.main_thread = "receive"]
    /\ UNCHANGED << machine, args, ret, opcode >>

\* if display_rx.try_recv().is_ok()
MainReceive ==
    /\ MainAt("receive")
    /\ interface' =
        IF interface.display_channel > 0
        THEN [interface EXCEPT !.display_channel = interface.display_channel - 1,
                               !.main_thread = "draw"]
        ELSE [interface EXCEPT !.main_thread = "drain"]
    /\ UNCHANGED << machine, args, ret, opcode >>

\* self.draw(&mut canvas): self.emulator.read().unwrap(), then the cells
MainDraw ==
    /\ MainAt("draw")
    /\ interface' =
        IF interface.emulator_thread = "panicked"
        THEN [interface EXCEPT !.main_thread = "panicked"]
        ELSE [interface EXCEPT !.canvas = display, !.main_thread = "drain"]
    /\ UNCHANGED << machine, args, ret, opcode >>

\* while display_rx.try_recv().is_ok() {}
MainDrain ==
    /\ MainAt("drain")
    /\ interface' =
        IF interface.display_channel > 0
        THEN [interface EXCEPT !.display_channel = interface.display_channel - 1]
        ELSE [interface EXCEPT !.main_thread = "clock"]
    /\ UNCHANGED << machine, args, ret, opcode >>

\* clock_tx.send(()).unwrap()
MainClock ==
    /\ MainAt("clock")
    /\ interface' =
        IF EmulatorGone
        THEN [interface EXCEPT !.main_thread = "panicked"]
        ELSE [interface EXCEPT !.clock_channel = Sent(interface.clock_channel),
                               !.main_thread = "check_running"]
    /\ UNCHANGED << machine, args, ret, opcode >>

\* run_tx.send(()).unwrap()
MainStop ==
    /\ MainAt("stop")
    /\ interface' =
        IF EmulatorGone
        THEN [interface EXCEPT !.main_thread = "panicked"]
        ELSE [interface EXCEPT !.run_channel = 1, !.main_thread = "join"]
    /\ UNCHANGED << machine, args, ret, opcode >>

\* handle.join().unwrap()
MainJoin ==
    /\ MainAt("join")
    /\ EmulatorGone
    /\ interface' = [interface EXCEPT !.main_thread =
                        IF interface.emulator_thread = "panicked"
                        THEN "panicked" ELSE "returned"]
    /\ UNCHANGED << machine, args, ret, opcode >>

NextRun ==
    \/ EmulatorCheckRun \/ EmulatorStep \/ EmulatorSend \/ EmulatorClock
    \/ EmulatorKeys
    \/ MainCheckRunning \/ MainPoll \/ MainReceive \/ MainDraw \/ MainDrain
    \/ MainClock \/ MainStop \/ MainJoin

SpecRun == InitRun /\ [][NextRun]_vars

(***************************************************************************)
(* Properties.                                                             *)
(***************************************************************************)
\* The latest call was a step that fetched `word` (and so executed it)
Executed(word) == ret.call = "step" /\ opcode = word

\* The word step fetched in the transition is a call 2NNN / a key skip
IsCall(word) == word \div 4096 = 2
IsKeySkip(word) == word \div 4096 = 14 /\ word % 256 \in {\h9E, \hA1}

\* C1: whenever step returns an error, the machine after the call (program
\* counter, registers, index, stack, stack pointer, memory, framebuffer,
\* timers, input latch) is the machine before the call.
C1_ErrorLeavesMachineUnchanged ==
    [][Step /\ ret'.status = "Err" => machine' = machine]_vars

\* C2: a call 2NNN executed with fewer than 128 entries on the stack succeeds,
\* pushing the advanced program counter, incrementing the stack pointer and
\* jumping to NNN; executed with 128 entries it fails with StackOverflow.
C2_CallSucceedsBelowCapacity ==
    [][Step /\ IsCall(opcode') =>
            IF sp < 128
            THEN /\ ret'.status = "Ok"
                 /\ stack' = [stack EXCEPT ![sp] = pc + 2]
                 /\ sp' = sp + 1
                 /\ pc' = opcode' % 4096
            ELSE ret'.status = "Err" /\ ret'.error = "StackOverflow"]_vars

\* The address the j-th nested call of a chain pushes
ReturnAddress(j) == IF j = 1 THEN 514 ELSE Level(j - 1) + 2

\* C3: for every k in 1 .. 128, k nested calls from the empty stack followed by
\* k returns all succeed, the i-th return sets the program counter to the
\* address the (k-i+1)-th call pushed, and the stack pointer ends at 0.  In the
\* run of Chain(k): every step succeeds, a return that leaves the stack pointer
\* at s has jumped to the address call s+1 pushed, and the machine is at the
\* final jump only with the stack empty.
C3_NestedCallsReturnInOrder ==
    \A k \in ChainDepths :
        args.program = Chain(k) /\ k <= 128 /\ ret.call = "step" =>
            /\ ret.status = "Ok"
            /\ sp <= k
            /\ opcode = \h00EE => pc = ReturnAddress(sp + 1)
            /\ opcode = \h1202 => sp = 0

\* C4: a return 00EE executed with stack pointer 0 fails with PoppedEmptyStack
\* and changes neither the stack pointer nor the stack; executed with stack
\* pointer s > 0 it sets the program counter to stack[s-1] and the stack
\* pointer to s-1.
C4_Return ==
    [][Step /\ opcode' = \h00EE =>
            IF sp = 0
            THEN /\ ret' = Returned("step", PoppedEmptyStack)
                 /\ sp' = 0
                 /\ stack' = stack
            ELSE /\ ret'.status = "Ok"
                 /\ pc' = stack[sp - 1]
                 /\ sp' = sp - 1
                 /\ stack' = stack]_vars

\* A return on the empty stack has failed, after a call and a return that
\* took the program counter to the pushed address 0x202.
C4_Witness ==
    /\ Executed(\h00EE)
    /\ ret.error = "PoppedEmptyStack"
    /\ sp = 0
    /\ stack[0] = 514
    /\ pc = 516

\* C5: in every state reachable by steps (succeeding or failing) and ticks,
\* 0 <= stack pointer <= 128.
C5_StackPointerInRange == sp >= 0 /\ sp <= 128

\* The stack pointer is at the capacity, after the call that failed with
\* StackOverflow.
C5_Witness ==
    /\ sp = 128
    /\ IsCall(opcode)
    /\ ret.call = "step" /\ ret.error = "StackOverflow"

\* C6: step fails with PcOutOfBounds whenever pc > 0xFFE (pc or pc+1 outside
\* memory), 0xFFF included; for pc <= 0xFFE it fetches the big-endian word
\* memory[pc]*256 + memory[pc+1].
C6_FetchBounds ==
    [][Step =>
            IF pc > \hFFE
            THEN ret' = Returned("step", PcOutOfBounds)
            ELSE opcode' = memory[pc] * 256 + memory[pc + 1]]_vars

\* C7: every memory address a step reads or writes is at most 0xFFF: no step
\* indexes memory outside 0 .. 0xFFF.
C7_MemoryAddressesInRange ==
    ret.status = "Panic" /\ ret.info.array = "memory" => ret.info.index <= \hFFF

\* C8: EX9E and EXA1 fail with InvalidInstruction for every register[X] >= 16
\* (16 included); for register[X] in 0 .. 15 they skip the next instruction iff
\* the key is pressed (EX9E) or not pressed (EXA1).
C8_KeySkip ==
    [][Step /\ IsKeySkip(opcode') =>
            LET instruction == from_opcode(opcode')
                key == registers[instruction.x]
            IN  IF key >= 16
                THEN ret' = Returned("step", InvalidInstruction(instruction))
                ELSE /\ ret'.status = "Ok"
                     /\ pc' = IF keypad[key] = (instruction.nn = \h9E)
                              THEN pc + 4 ELSE pc + 2]_vars

\* The words with no defined operation, register[X] holding key
Undefined(instruction, key) ==
    \/ instruction.operation = 0 /\ instruction.nnn \notin {\h0E0, \h0EE}
    \/ instruction.operation = 8 /\ instruction.n \notin {0, 1, 2, 3, 4, 5, 6, 7, 14}
    \/ instruction.operation = 14 /\ instruction.nn \notin {\h9E, \hA1}
    \/ instruction.operation = 14 /\ key \notin 0 .. 15
    \/ instruction.operation = 15
         /\ instruction.nn \notin {\h07, \h0A, \h15, \h18, \h1E, \h29, \h33, \h55, \h65}

\* C9: step fails with InvalidInstruction, carrying the decoded fields of the
\* fetched word, if and only if the word has no defined operation (class E
\* also with an out-of-range key index).
C9_InvalidInstructionIffUndefined ==
    [][Step /\ opcode' # NoOpcode =>
            LET instruction == from_opcode(opcode')
            IN  (ret' = Returned("step", InvalidInstruction(instruction)))
                    <=> Undefined(instruction, registers[instruction.x])]_vars

\* C10: for a program image of length L <= 3584, new succeeds, memory[0x200+i]
\* is program byte i for all i < L and the program counter is 0x200; for
\* L > 3584, new fails with ProgramTooLarge(L) and no machine is created.
C10_New ==
    ret.call = "new" =>
        LET L == Len(args.program)
        IN  IF L <= 3584
            THEN /\ ret.status = "Ok"
                 /\ \A i \in 0 .. L - 1 : memory[512 + i] = args.program[i + 1]
                 /\ pc = 512
            ELSE /\ ret = Returned("new", ProgramTooLarge(L))
                 /\ Self = NoMachine

\* new has loaded an image of exactly 3584 bytes, up to the last byte of memory.
C10_Witness ==
    /\ ret.call = "new" /\ ret.status = "Ok"
    /\ Len(args.program) = 3584
    /\ memory[4095] = args.program[3584]
    /\ memory[4095] # 0

\* C11: after construction memory[0x50 .. 0x9F] is the 80-byte glyph table, and
\* it still is in every state reachable by steps and ticks, for every program
\* and quirk setting: no instruction (BCD store FX33 and register store FX55
\* included) writes into 0x50 .. 0x9F.
C11_GlyphTableImmutable ==
    \A i \in 0 .. 79 : memory[\h50 + i] = FONT[i + 1]

\* The word step fetched is a draw DXYN
IsDraw(word) == word \div 4096 = 13

\* Bit c of a sprite row, bit 0 the most significant
SpriteBit(byte, c) == (byte \div (2 ^ (7 - c))) % 2 = 1

\* The framebuffer with no cell lit
Blank == [r \in 0 .. 31 |-> [c \in 0 .. 63 |-> FALSE]]

\* In a DrawProgram: the framebuffer its background draw leaves (before the
\* first draw of the sprite), the start position of the draws of the sprite
\* (were X = Y, the register holds the value written last), their number of
\* rows, and whether a set bit of the sprite lands on an unlit cell of the
\* background
Background ==
    LET x0 == args.program[2] % 64
        y0 == args.program[4] % 32
    IN  [r \in 0 .. 31 |-> [c \in 0 .. 63 |->
            /\ r \in y0 .. y0 + 1
            /\ c \in x0 .. x0 + 7
            /\ SpriteBit(args.program[25 + (r - y0)], c - x0)]]

DrawX0 ==
    (IF args.program[9] = args.program[11]
     THEN args.program[12] ELSE args.program[10]) % 64
DrawY0 == args.program[12] % 32
DrawRows == args.program[16] % 16

FirstDrawLights ==
    \E r \in 0 .. 31, c \in 0 .. 63 :
        /\ r \in DrawY0 .. DrawY0 + DrawRows - 1
        /\ c \in DrawX0 .. DrawX0 + 7
        /\ SpriteBit(memory[\h21A + (r - DrawY0)], c - DrawX0)
        /\ ~Background[r][c]

\* C12: for every X and Y in 0 .. 15 (15 included), every N, sprite and
\* framebuffer, the same draw DXYN executed twice in succession restores the
\* framebuffer to what it was before the first draw, and register 15 after the
\* second draw is 1 iff the first draw lit at least one cell.  In a
\* DrawProgram: after the second draw (the program counter at 0x212) the
\* framebuffer is the background again.
C12_DrawTwiceRestores ==
    args.program \in DrawPrograms /\ ret.call = "step" /\ IsDraw(opcode) /\ pc = \h212 =>
        /\ display = Background
        /\ registers[15] = IF FirstDrawLights THEN 1 ELSE 0

\* C13: DXYN XORs bit c of sprite row r = memory[index+r] into the cell
\* (y0+r, x0+c), x0 = register[X] mod 64 and y0 = register[Y] mod 32 taken
\* before the instruction and the same for every row, for the r < N, c < 8
\* with y0+r <= 31 and x0+c <= 63; every other cell is unchanged.  For every X
\* and Y, 15 included.
C13_DrawPlacement ==
    [][Step /\ IsDraw(opcode') /\ ret'.status = "Ok" =>
            LET instruction == from_opcode(opcode')
                x0 == registers[instruction.x] % 64
                y0 == registers[instruction.y] % 32
            IN  display' =
                    [r \in 0 .. 31 |-> [c \in 0 .. 63 |->
                        IF /\ r \in y0 .. y0 + instruction.n - 1
                           /\ c \in x0 .. x0 + 7
                        THEN display[r][c] # SpriteBit(memory[index + (r - y0)], c - x0)
                        ELSE display[r][c]]]]_vars

\* C14: after any DXYN register 15 is 1 if at least one cell went from lit to
\* unlit during that draw and 0 otherwise, whatever register 15 held before.
C14_CollisionFlag ==
    [][Step /\ IsDraw(opcode') /\ ret'.status = "Ok" =>
            registers'[15] =
                IF \E r \in 0 .. 31, c \in 0 .. 63 : display[r][c] /\ ~display'[r][c]
                THEN 1 ELSE 0]_vars

\* The second draw of the sprite row FF over the four lit cells at the right
\* end of the bottom row has ended with no collision: register 15, 1 after the
\* first draw that turned them off, is 0.
C14_Witness ==
    /\ args.program = DrawProgram(3, 4, 60, 31, 2, \hFFFF, \hFF81)
    /\ Executed(\hD342) /\ ret.status = "Ok"
    /\ pc = \h212
    /\ registers[15] = 0
    /\ \A c \in 60 .. 63 : display[31][c]

\* C15: a successful step returns true if and only if the executed instruction
\* is the sprite draw (class 0xD), for every N (0 included) and every sprite.
C15_FlagIffDraw ==
    [][Step /\ ret'.status = "Ok" => (ret'.flag <=> IsDraw(opcode'))]_vars

\* A draw of no rows over a lit framebuffer has returned true.
C15_Witness ==
    /\ Executed(\hD340) /\ ret.status = "Ok" /\ ret.flag
    /\ display # Blank

\* C16: whenever the framebuffer after a successful step differs from the
\* framebuffer before it, the step returns true.
C16_ChangeIsReported ==
    [][Step /\ ret'.status = "Ok" /\ display' # display => ret'.flag]_vars

\* The digit-0 glyph (rows F0 90 90 90 F0) with its top-left corner at (0, 0)
GlyphZeroAtOrigin ==
    [r \in 0 .. 31 |-> [c \in 0 .. 63 |->
        r < 5 /\ c < 8 /\ SpriteBit(FONT[r + 1], c)]]

\* C17: the machine constructed from the bytes 00 E0, 60 05, A2 0A, D0 05 and
\* stepped four times returns the flags false, false, false, true, and after
\* the fourth step the framebuffer shows the digit-0 glyph at (0, 0) and no
\* other lit cell.
C17_Scenario ==
    args.program = ScenarioProgram /\ ret.call = "step" =>
        /\ ret.status = "Ok"
        /\ ret.flag = (pc = \h208)
        /\ pc = \h208 => display = GlyphZeroAtOrigin

\* C17 as amended: the flags are false, false, false, true, and after the
\* fourth step no cell of the framebuffer is lit and register 15 is 0 (the
\* draw reads its five rows at 0x20A .. 0x20E, after the image, where memory
\* is zero).
C17_ScenarioDrawsNothing ==
    args.program = ScenarioProgram /\ ret.call = "step" =>
        /\ ret.status = "Ok"
        /\ ret.flag = (pc = \h208)
        /\ pc = \h208 =>
            /\ \A a \in \h20A .. \h20E : memory[a] = 0
            /\ display = Blank
            /\ registers[15] = 0

\* The fourth step of the scenario has drawn, with register 0 = 5 and
\* index = 0x20A.
C17_Witness ==
    /\ args.program = ScenarioProgram
    /\ Executed(\hD005) /\ ret.status = "Ok" /\ ret.flag
    /\ pc = \h208 /\ registers[0] = 5 /\ index = \h20A

\* The word step fetched is the operation 8XYn
IsAlu(word, n) == word \div 4096 = 8 /\ word % 16 = n

\* Every register other than X and 15 is as it was
OtherRegistersUnchanged(x) ==
    \A i \in (0 .. 15) \ {x, 15} : registers'[i] = registers[i]

\* C18: for 8XY4 and every X, Y in 0 .. 15 with a = register[X], b = register[Y]
\* before the instruction: afterwards register 15 is 1 iff a + b > 255 and 0
\* otherwise (also when X or Y is 15), for X # 15 register[X] is
\* (a + b) mod 256, and no other register changes.
C18_AddWithCarry ==
    [][Step /\ IsAlu(opcode', 4) =>
            LET x == from_opcode(opcode').x
                a == registers[x]
                b == registers[from_opcode(opcode').y]
            IN  /\ ret'.status = "Ok"
                /\ registers'[15] = IF a + b > 255 THEN 1 ELSE 0
                /\ x # 15 => registers'[x] = (a + b) % 256
                /\ OtherRegistersUnchanged(x)]_vars

\* 8F24 has added 255 and 1 in register 15: the carry 1 is what it holds, not
\* the sum 0.
C18_Witness ==
    /\ args.program = AluProgram(15, 2, 255, 1, 4)
    /\ Executed(\h8F24) /\ ret.status = "Ok"
    /\ registers[15] = 1 /\ registers[2] = 1

\* C19: with a = register[X], b = register[Y] before the instruction, 8XY5 sets
\* register 15 to 1 iff a >= b and, for X # 15, register[X] to (a - b) mod 256;
\* 8XY7 sets register 15 to 1 iff b >= a and, for X # 15, register[X] to
\* (b - a) mod 256.  Equal operands give register 15 = 1 and result 0.
C19_Subtract ==
    [][Step /\ (IsAlu(opcode', 5) \/ IsAlu(opcode', 7)) =>
            LET x == from_opcode(opcode').x
                a == registers[x]
                b == registers[from_opcode(opcode').y]
                minuend == IF IsAlu(opcode', 5) THEN a ELSE b
                subtrahend == IF IsAlu(opcode', 5) THEN b ELSE a
            IN  /\ ret'.status = "Ok"
                /\ registers'[15] = IF minuend >= subtrahend THEN 1 ELSE 0
                /\ x # 15 => registers'[x] = (minuend - subtrahend + 256) % 256
                /\ minuend = subtrahend /\ x # 15 => registers'[x] = 0 /\ registers'[15] = 1
                /\ OtherRegistersUnchanged(x)]_vars

\* 8127 has subtracted register 1 = 7 from register 2 = 7: the result is 0
\* and register 15 is 1.
C19_Witness ==
    /\ args.program = AluProgram(1, 2, 7, 7, 7)
    /\ Executed(\h8127) /\ ret.status = "Ok"
    /\ registers[1] = 0 /\ registers[2] = 7 /\ registers[15] = 1

\* C20: for 8XY6 and 8XYE and every X, Y in 0 .. 15, with s = register[Y] if
\* the shift quirk is enabled and register[X] otherwise, before the
\* instruction: afterwards register 15 is the bit shifted out of s (bit 0 for
\* 8XY6, bit 7 for 8XYE; 0 or 1, also when X is 15), and for X # 15
\* register[X] is s >> 1 (8XY6) or (s << 1) mod 256 (8XYE).  E.g. register
\* 1 = 0x80, register 2 = 0x01, 812E: 0x02 and 0 with the quirk, 0x00 and 1
\* without.
C20_Shift ==
    [][Step /\ (IsAlu(opcode', 6) \/ IsAlu(opcode', 14)) =>
            LET x == from_opcode(opcode').x
                s == IF shift_sets_vx THEN registers[from_opcode(opcode').y]
                     ELSE registers[x]
                right == IsAlu(opcode', 6)
            IN  /\ ret'.status = "Ok"
                /\ registers'[15] = IF right THEN s % 2 ELSE s \div 128
                /\ registers'[15] \in {0, 1}
                /\ x # 15 => registers'[x] = IF right THEN s \div 2 ELSE (s * 2) % 256]_vars

\* max(t - 1, 0)
Decremented(t) == IF t > 0 THEN t - 1 ELSE 0

\* C21: tick_clock sets each of the two timers independently to max(t - 1, 0)
\* (a timer at 0 stays 0 and never wraps to 255) and leaves program counter,
\* registers, index, stack, stack pointer, memory, framebuffer and input latch
\* unchanged; so n consecutive ticks take a timer from t to max(t - n, 0).
C21_TickClock ==
    [][TickClock =>
            /\ delay_timer' = Decremented(delay_timer)
            /\ sound_timer' = Decremented(sound_timer)
            /\ delay_timer' \in 0 .. 254 /\ sound_timer' \in 0 .. 254
            /\ UNCHANGED << pc, registers, index, stack, sp, memory, display, keypad >>]_vars

\* The delay timer, loaded with MaxTimer, has been ticked down to 0 and read
\* into V2 while the sound timer, loaded with 1, is at 0.
C21_Witness ==
    /\ args.program = TimerProgram(MaxTimer, 1)
    /\ Executed(\hF207)
    /\ registers[0] = MaxTimer /\ registers[2] = 0
    /\ delay_timer = 0 /\ sound_timer = 0

\* The word step fetched is the key wait FX0A
IsWait(word) == word \div 4096 = 15 /\ word % 256 = \h0A

\* The program counter is at a key wait FX0A
AtWait == pc + 1 < MEMORY_LEN /\ IsWait(memory[pc] * 256 + memory[pc + 1])

\* The keys the latch holds pressed
Pressed == {k \in 0 .. 15 : keypad[k]}

\* C22: FX0A with no key pressed succeeds returning false, leaves the program
\* counter where it was before the step and changes no register, memory,
\* index, stack or timer; with at least one key pressed register[X] becomes
\* the lowest pressed key index and the program counter ends 2 past the
\* instruction.
C22_KeyWait ==
    [][Step /\ IsWait(opcode') =>
            LET x == from_opcode(opcode').x
            IN  /\ ret' = Returned("step", Ok(FALSE))
                /\ IF Pressed = {}
                   THEN /\ pc' = pc
                        /\ UNCHANGED << registers, memory, index, stack, sp,
                                        delay_timer, sound_timer >>
                   ELSE /\ \A k \in Pressed : registers'[x] <= k
                        /\ registers'[x] \in Pressed
                        /\ pc' = pc + 2]_vars

\* The wait into V5 has ended with the keys 0 and 1 both pressed: V5 holds 0.
C22_Witness ==
    /\ Executed(\hF50A) /\ ret.status = "Ok"
    /\ keypad[0] /\ keypad[1]
    /\ registers[5] = 0
    /\ pc = \h208

\* C23: with the program counter at an FX0A, under any interleaving of steps,
\* ticks and latch updates: while the latch is all-unpressed at every step the
\* program counter never leaves the instruction (and the timers still
\* decrement on ticks); a step taken with some key pressed completes the
\* instruction and execution proceeds to the following one.
C23_WaitSpinsUntilKey ==
    [][AtWait =>
            /\ pc' # pc => Step /\ Pressed # {} /\ pc' = pc + 2 /\ ret'.status = "Ok"
            /\ Step /\ Pressed = {} => AtWait'
            /\ Step /\ Pressed # {} => pc' = pc + 2 /\ ret'.status = "Ok"
            /\ TickClock => /\ delay_timer' = Decremented(delay_timer)
                            /\ AtWait']_vars

\* The wait has been completed by a step taken with only key 1 pressed, after
\* the delay timer was ticked down to 0 (during or before the wait).
C23_Witness ==
    /\ Executed(\hF00A) /\ ret.status = "Ok"
    /\ Pressed = {1}
    /\ registers[0] = 1
    /\ pc = \h208
    /\ delay_timer = 0

\* C24: the framebuffer is changed only by the draw DXYN and by the clear
\* 00E0: every other instruction, every failing step and tick_clock leave all
\* cells unchanged; after 00E0 every cell is false whatever the framebuffer
\* was, and 00E0 changes no register (register 15 included), index, stack,
\* timer or memory byte.
C24_FramebufferFrame ==
    [][/\ display' # display => Step /\ (IsDraw(opcode') \/ opcode' = \h00E0)
       /\ Step /\ ret'.status = "Err" => display' = display
       /\ Step /\ opcode' = \h00E0 =>
            /\ ret'.status = "Ok"
            /\ display' = Blank
            /\ UNCHANGED << registers, index, stack, sp, delay_timer, sound_timer,
                            memory >>]_vars

\* 00E0 has cleared the framebuffer a draw of the sprite F0 90 left lit:
\* register 15 still holds the 7 and the index the 0x20A the program put there.
C24_Witness ==
    /\ args.program = FlagClearProgram
    /\ Executed(\h00E0) /\ ret.status = "Ok"
    /\ display = Blank
    /\ registers[15] = 7
    /\ index = \h20A
    /\ pc = \h208

\* The word step fetched is the store FX55 / the load FX65 / the add FX1E
IsStore(word) == word \div 4096 = 15 /\ word % 256 = \h55
IsLoad(word) == word \div 4096 = 15 /\ word % 256 = \h65
IsAddIndex(word) == word \div 4096 = 15 /\ word % 256 = \h1E

\* The index after a store or load of V0..Vx
IndexAfter(x) == IF increment_i_on_store_and_load THEN index + x + 1 ELSE index

C26_AddToIndex ==
    [][Step /\ IsAddIndex(opcode') =>
            LET i == index
                v == registers[from_opcode(opcode').x]
            IN  /\ ret'.status = "Ok"
                /\ index' = IF i + v > \hFFF THEN (i + v) % 4096 ELSE i + v
                /\ index' <= \hFFF
                /\ registers'[15] = IF i + v > \hFFF THEN 1 ELSE 0]_vars

\* F01E has added V0 = 5 to the index 0x1000 the store under the increment
\* quirk left: the index is 5 and register 15 is 1.
C26_Witness ==
    /\ args.program = IndexAfterStoreProgram
    /\ increment_i_on_store_and_load
    /\ Executed(\hF01E) /\ ret.status = "Ok"
    /\ memory[\hFFF] = 5
    /\ index = 5 /\ registers[15] = 1

\* C27: in Interface::run, while no quit is requested, every step that returns
\* true is followed by a draw that reads the framebuffer as it is at or after
\* that step: whenever no redraw request is pending or about to be sent and
\* no draw is under way, the window shows the present framebuffer.
C27_RedrawNotLost ==
    /\ interface.running
    /\ interface.main_thread \notin {"none", "draw", "panicked", "returned"}
    /\ interface.emulator_thread \notin {"send", "panicked"}
    /\ interface.display_channel = 0
    => interface.canvas = display

\* C28: once the main loop of Interface::run has handled a quit event, run
\* returns normally, for every program and also after a step that returned
\* an error: the main thread never fails on a channel send, on the lock or
\* on the join.
C28_QuitReturns ==
    interface.main_thread # "none" /\ ~interface.running
    => interface.main_thread # "panicked"
====
